---- MODULE Spec2Model ----
(***************************************************************************)
(* Model of the bulk loader of mibios (src/mibios/load.py):                *)
(* AbstractLoader.process_file / process_line / account, driven by a row   *)
(* handler of the shape of process_participant followed by the consistency *)
(* checks of the concrete loaders.  The persistent store is the database   *)
(* behind Django's transaction.atomic(): `store` is what is committed,     *)
(* `db` is what the run's open transaction sees.  Spec is one load of a    *)
(* file, SpecAudit the loads that write, SpecTwice the same file loaded    *)
(* twice, and SpecRow what __init__ and process_line make of the headers   *)
(* and of the text of a line.                                              *)
(***************************************************************************)
EXTENDS Integers, Sequences, FiniteSets, TLC

\* ---------------------------------------------------------------- bounds
MaxLines == 3
MaxCols == 2
MaxLen == 3

\* ------------------------------------------------------------ vocabulary
Names == {"p1", "p2"}
Fields == {"semester", "quantity_compliant"}
Empty == ""
NonEmpty == {"v1", "v2"}
ModelNames == {"participant"}
None == <<>>

\* user=None of __init__, self.file.name and ' '.join(sys.argv)
NoUser == ""
Users == {NoUser, "u1"}
FileName == "file.tsv"
Argv == "manage.py load file.tsv"

Recoverable == {"ValidationError", "IntegrityError", "UserDataError"}

NoErr == [kind |-> "none", msg |-> "", at |-> "none"]

\* what can go wrong while a row is processed, and where it is raised
Errors ==
    {NoErr}
    \cup {[kind |-> "UserDataError", msg |-> "m1", at |-> "pre"]}
    \cup {[kind |-> "UserDataError", msg |-> "m2", at |-> "post"]}
    \cup {[kind |-> "ValidationError", msg |-> "m1", at |-> "clean"]}
    \cup {[kind |-> "IntegrityError", msg |-> "m1", at |-> "save"]}
    \cup {[kind |-> "KeyError", msg |-> "m1", at |-> "post"]}
    \cup {[kind |-> "MultipleObjectsReturned", msg |-> "m1", at |-> "lookup"]}

\* the values a line can propose for each field
Proposed == [semester |-> {"v1", "v2"}, quantity_compliant |-> {"v1"}]

FromRows ==
    UNION {{r \in [D -> NonEmpty] : \A f \in D : r[f] \in Proposed[f]} :
             D \in SUBSET Fields}

\* one data line of the input file, after splitting and normalisation:
\* any line about p1, the lines about p2 that name its semester, and a
\* line whose step calls account(obj, new) with no from_row, as
\* process_semester and process_week do
Lines ==
    [participant : {"p1"}, from_row : FromRows, err : Errors, given : {TRUE}]
    \cup [participant : {"p2"},
          from_row : {[f \in {"semester"} |-> "v1"]},
          err : {e \in Errors : e.at \in {"none", "clean"}},
          given : {TRUE}]
    \cup {[participant |-> "p1", from_row |-> <<>>, err |-> NoErr,
           given |-> FALSE]}

\* the notes a line can name, and the lines of a file with a note column
Notes == {"n1", "n2"}

NoteLines ==
    [participant : Names, from_row : {<<>>},
     err : {e \in Errors : e.at \in {"none", "clean", "post"}
                           /\ e.kind # "KeyError"},
     given : {TRUE}, note : Notes]
    \cup {l \in Lines : l.from_row = <<>> /\ l.err = NoErr /\ l.given}

HasNote(ln) == "note" \in DOMAIN ln

\* stores the run can start from: empty, or p1 with its semester known
InitStores ==
    {[ent |-> <<>>, audit |-> {}, notes |-> {}]}
    \cup {[ent |-> [n \in {"p1"} |-> e], audit |-> {}, notes |-> {}] :
             e \in {[semester |-> "v1", quantity_compliant |-> Empty]}}

\* stores in which p1 has a note attached
NoteStores ==
    {[s EXCEPT !.notes = {<<"p1", "n1">>}] : s \in {t \in InitStores : t.ent # <<>>}}

\* --------------------------------------------------------------- __init__
LoaderInit(can_overwrite, warn_on_error, dry_run, user) ==
    [warnings |-> <<>>,
     new |-> [m \in ModelNames |-> 0],
     added |-> [m \in ModelNames |-> 0],
     changed |-> [m \in ModelNames |-> <<>>],
     count |-> 0,
     can_overwrite |-> can_overwrite,
     warn_on_error |-> warn_on_error,
     dry_run |-> dry_run,
     user |-> user,
     linenum |-> 1,
     last_warning |-> None,
     rec |-> <<>>]

\* ------------------------------------------------------------ exceptions
\* an exception: its class, its message, the line number its message names,
\* and the class of the exception it was raised from by process_file
NoExc == [kind |-> "none", msg |-> "", line |-> 0, cause |-> "none"]

Raise(st, kind, msg) ==
    [st EXCEPT !.exc = [kind |-> kind, msg |-> msg, line |-> st.self.linenum,
                        cause |-> "none"]]

\* str(e.message_dict) of a ValidationError: the text of a dict
str_message_dict(m) == "{" \o m \o "}"

\* ------------------------------------------------------- persistent store
Exists(d, obj) == obj \in DOMAIN d.ent

change_record_cmdline_always(slf, obj) ==
    [obj |-> obj, file |-> FileName, line |-> slf.linenum, user |-> slf.user,
     cmdline |-> Argv]

\* obj.add_change_record(file=..., line=..., user=..., cmdline=...)
change_record(slf, obj) ==
    [obj |-> obj, file |-> FileName, line |-> slf.linenum, user |-> slf.user,
     cmdline |-> IF slf.user = NoUser THEN Argv ELSE ""]

\* row of the entity table written, the change record of the object
\* appended with it
Write(d, obj, values, record) ==
    [ent |-> [n \in DOMAIN d.ent \cup {obj} |->
                 IF n = obj THEN values ELSE d.ent[n]],
     audit |-> d.audit \cup {record},
     notes |-> d.notes]

\* objects.get_or_create(defaults=from_row, name=...): an object that is
\* not found is inserted with the defaults before account() sees it
get_or_create(d, name, defaults) ==
    IF Exists(d, name)
    THEN [db |-> d, new |-> FALSE]
    ELSE [db |-> [d EXCEPT !.ent =
                    [n \in DOMAIN d.ent \cup {name} |->
                       IF n = name
                       THEN [f \in Fields |->
                               IF f \in DOMAIN defaults THEN defaults[f]
                               ELSE Empty]
                       ELSE d.ent[n]]],
          new |-> TRUE]

\* Model.compare(from_row): the differing fields, and whether every one of
\* them is unset on the stored object
compare(obj, from_row) ==
    LET diff == {f \in DOMAIN from_row : obj[f] # from_row[f]}
    IN [consistent |-> \A f \in diff : obj[f] = Empty, diff |-> diff]

\* for k, v in from_row.items(): setattr(obj, k, v)
setattrs(obj, from_row) ==
    [f \in Fields |-> IF f \in DOMAIN from_row THEN from_row[f] ELSE obj[f]]

\* ---------------------------------------------------------------- account
applies_always(consistent, can_overwrite) == TRUE

applies_overwrite_only(consistent, can_overwrite) == can_overwrite

\* if consistent or self.can_overwrite:
applies(consistent, can_overwrite) == consistent \/ can_overwrite

save_unless_dry_run(st, obj, values, oracle) ==
    IF oracle.at = "save"
    THEN Raise(st, "IntegrityError", oracle.msg)
    ELSE IF st.self.dry_run THEN st
    ELSE [st EXCEPT !.db = Write(st.db, obj, values, change_record(st.self, obj))]

\* obj.save(): the UNIQUE violation of the row, or the write
save(st, obj, values, oracle) ==
    IF oracle.at = "save"
    THEN Raise(st, "IntegrityError", oracle.msg)
    ELSE [st EXCEPT !.db = Write(st.db, obj, values, change_record(st.self, obj))]

\* obj.full_clean(); obj.save()
full_clean_save(st, obj, values, oracle) ==
    IF oracle.at = "clean"
    THEN Raise(st, "ValidationError", str_message_dict(oracle.msg))
    ELSE save(st, obj, values, oracle)

\* self.added[model_name] += 1, or the record appended to self.changed
count_diff(st, cur, obj, from_row, c) ==
    IF c.consistent
    THEN [st EXCEPT !.self.added["participant"] = @ + 1]
    ELSE [st EXCEPT !.self.changed["participant"] =
            Append(@, <<obj, {<<f, cur[f], from_row[f]>> : f \in c.diff}>>)]

account_existing_saves_always(st, cur, obj, from_row, c, oracle) ==
    IF c.diff = {}
    THEN full_clean_save(st, obj, cur, oracle)
    ELSE IF applies(c.consistent, st.self.can_overwrite)
    THEN full_clean_save(count_diff(st, cur, obj, from_row, c),
                         obj, setattrs(cur, from_row), oracle)
    ELSE count_diff(st, cur, obj, from_row, c)

\* the branch of account() for an object that was found: c is what
\* obj.compare(from_row) returned for the stored object cur
account_existing(st, cur, obj, from_row, c, oracle) ==
    IF c.diff = {}
    THEN st
    ELSE IF applies(c.consistent, st.self.can_overwrite)
    THEN full_clean_save(count_diff(st, cur, obj, from_row, c),
                         obj, setattrs(cur, from_row), oracle)
    ELSE count_diff(st, cur, obj, from_row, c)

\* self.rec[model_name] = obj, reached when nothing was raised
set_rec(st, obj) ==
    IF st.exc = NoExc
    THEN [st EXCEPT !.self.rec = ("participant" :> obj) @@ @]
    ELSE st

account(st, obj, is_new, from_row, has_from_row, oracle) ==
    set_rec(
        IF is_new
        THEN full_clean_save([st EXCEPT !.self.new["participant"] = @ + 1],
                             obj, st.db.ent[obj], oracle)
        ELSE IF has_from_row
        THEN account_existing(st, st.db.ent[obj], obj, from_row,
                              compare(st.db.ent[obj], from_row), oracle)
        ELSE st,
        obj)

\* ------------------------------------------------------------ process_row
\* The row handler is abstract in AbstractLoader.  The model takes the
\* participant step and the raise sites of MMPManifestLoader.process_row:
\* process_semester may raise UserDataError before anything is accounted,
\* process_participant resolves and accounts the participant, and the file
\* name checks after it raise UserDataError, or KeyError for a missing column.

\* obj, new = Participant.objects.get_or_create(...); self.account(obj, new,
\* from_row), with g what get_or_create returned
process_participant(st, g, ln) ==
    account([st EXCEPT !.db = g.db], ln.participant, g.new, ln.from_row,
            ln.given, ln.err)

note_add_replaces(st, ln) ==
    IF st.exc = NoExc /\ HasNote(ln)
    THEN [st EXCEPT !.db.notes =
            {a \in @ : a[1] # ln.participant}
            \cup {<<ln.participant, ln.note>>}]
    ELSE st

\* if 'note' in self.rec: obj.note.add(self.rec['note']): a row of the
\* table of the many-to-many relation, which is a set
note_add(st, ln) ==
    IF st.exc = NoExc /\ HasNote(ln)
    THEN [st EXCEPT !.db.notes = @ \cup {<<ln.participant, ln.note>>}]
    ELSE st

\* the checks that follow the participant step
checks_after(st, ln) ==
    IF st.exc = NoExc /\ ln.err.at = "post"
    THEN Raise(st, ln.err.kind, ln.err.msg)
    ELSE st

\* get_or_create() finds more than one object and raises
\* MultipleObjectsReturned, which no row handler of AbstractLoader catches
process_row(st, ln) ==
    IF ln.err.at = "pre"
    THEN Raise(st, ln.err.kind, ln.err.msg)
    ELSE IF ln.err.at = "lookup"
    THEN Raise(st, "MultipleObjectsReturned", ln.err.msg)
    ELSE checks_after(
            note_add(
                process_participant(
                    st, get_or_create(st.db, ln.participant, ln.from_row), ln),
                ln),
            ln)

\* ----------------------------------------------------------- transactions
atomic_inner_no_savepoint(db_before, db_after, raised) == db_after

\* with transaction.atomic() around process_row: the savepoint of the line
atomic_inner(db_before, db_after, raised) ==
    IF raised THEN db_before ELSE db_after

atomic_outer_commits(committed, db_after, raised) == db_after

\* with transaction.atomic() around the loop over the file
atomic_outer(committed, db_after, raised) ==
    IF raised THEN committed ELSE db_after

dry_run_never_raises(slf) == FALSE

\* if self.dry_run: raise DryRunRollback
dry_run_rollback(slf) == slf.dry_run

\* ----------------------------------------------------------- process_line
\* the warning texts, kept as the values the format strings are filled with
WarnSkip(first_line, msg, err) ==
    <<"skipping row: at line", first_line, msg, err>>

WarnMore(n) == <<"(and for next lines)", n>>

\* "manage repeated warnings"
manage_warning(slf, err_name, msg) ==
    IF slf.last_warning = None
    THEN [slf EXCEPT !.last_warning = <<err_name, msg, slf.linenum, slf.linenum>>]
    ELSE LET last_err == slf.last_warning[1]
             last_msg == slf.last_warning[2]
             first_line == slf.last_warning[3]
             last_line == slf.last_warning[4]
         IN IF msg = last_msg /\ last_line + 1 = slf.linenum
            THEN [slf EXCEPT !.last_warning =
                     <<last_err, msg, first_line, slf.linenum>>]
            ELSE [slf EXCEPT
                     !.warnings =
                        (@ \o <<WarnSkip(first_line, last_msg, last_err)>>)
                        \o (IF last_line # first_line
                            THEN <<WarnMore(last_line - first_line)>>
                            ELSE <<>>),
                     !.last_warning =
                        <<err_name, msg, slf.linenum, slf.linenum>>]

\* "backup counters" / "reset stats": new_ = self.new binds a second name to
\* the same Counter object, which process_row then updates in place, so
\* self.new = new_ assigns the object as it is after the row
reset_stats(slf_before, slf_now) ==
    [slf_now EXCEPT !.new = slf_now.new,
                    !.added = slf_now.added,
                    !.changed = slf_now.changed]

\* the row handler run on the loader as process_line has prepared it
RowResult(w, ln) ==
    process_row([self |-> [w.self EXCEPT !.linenum = @ + 1, !.rec = <<>>],
                 db |-> w.db,
                 exc |-> NoExc], ln)

after_row_always_warns(w, r, dbx) ==
    IF r.exc = NoExc
    THEN [w EXCEPT !.self = [r.self EXCEPT !.count = @ + 1], !.db = dbx]
    ELSE IF r.exc.kind \in Recoverable
    THEN [w EXCEPT
            !.self = [reset_stats(w.self,
                         manage_warning(r.self, r.exc.kind, r.exc.msg))
                      EXCEPT !.count = @ + 1],
            !.db = dbx]
    ELSE [w EXCEPT !.self = r.self, !.db = dbx,
                   !.exc = r.exc, !.pc = "raising"]

after_row_skips_uncounted(w, r, dbx) ==
    IF r.exc = NoExc
    THEN [w EXCEPT !.self = [r.self EXCEPT !.count = @ + 1], !.db = dbx]
    ELSE IF r.exc.kind \in Recoverable /\ r.self.warn_on_error
    THEN [w EXCEPT
            !.self = reset_stats(w.self,
                         manage_warning(r.self, r.exc.kind, r.exc.msg)),
            !.db = dbx]
    ELSE [w EXCEPT !.self = r.self, !.db = dbx,
                   !.exc = r.exc, !.pc = "raising"]

after_row_warns_all(w, r, dbx) ==
    IF r.exc = NoExc
    THEN [w EXCEPT !.self = [r.self EXCEPT !.count = @ + 1], !.db = dbx]
    ELSE IF r.self.warn_on_error
    THEN [w EXCEPT
            !.self = [reset_stats(w.self,
                         manage_warning(r.self, r.exc.kind, r.exc.msg))
                      EXCEPT !.count = @ + 1],
            !.db = dbx]
    ELSE [w EXCEPT !.self = r.self, !.db = dbx,
                   !.exc = r.exc, !.pc = "raising"]

\* the except clauses of process_line and its last statement: r is what the
\* row handler left, dbx the database after the inner atomic block
after_row(w, r, dbx) ==
    IF r.exc = NoExc
    THEN [w EXCEPT !.self = [r.self EXCEPT !.count = @ + 1], !.db = dbx]
    ELSE IF r.exc.kind \in Recoverable /\ r.self.warn_on_error
    THEN [w EXCEPT
            !.self = [reset_stats(w.self,
                         manage_warning(r.self, r.exc.kind, r.exc.msg))
                      EXCEPT !.count = @ + 1],
            !.db = dbx]
    ELSE [w EXCEPT !.self = r.self, !.db = dbx,
                   !.exc = r.exc, !.pc = "raising"]

\* with transaction.atomic(): self.process_row()
inner_block(w, r) ==
    after_row(w, r, atomic_inner(w.db, r.db, r.exc # NoExc))

process_line(w, ln) == inner_block(w, RowResult(w, ln))

\* ----------------------------------------------------------- process_file
\* the except clauses of process_file for what a line raised: st is the
\* store the outer atomic block leaves.  A UserDataError is raised again as
\* it is; anything else is the cause of a RuntimeError whose own message is
\* the text of the line, the line number staying in the message of the cause
except_file(w1, st) ==
    [w1 EXCEPT
       !.pc = "raised",
       !.store = st,
       !.db = st,
       !.exc = IF w1.exc.kind = "UserDataError"
               THEN w1.exc
               ELSE [kind |-> "RuntimeError",
                     msg |-> "Failed processing line",
                     line |-> w1.exc.line,
                     cause |-> w1.exc.kind]]

outer_block(w, w1) ==
    IF w1.pc = "raising"
    THEN except_file(w1, atomic_outer(w.store, w1.db, TRUE))
    ELSE w1

\* one turn of the loop of process_file
process_file_step(w, ln) == outer_block(w, process_line(w, ln))

returned(w, st) == [w EXCEPT !.store = st, !.db = st, !.pc = "returned"]

\* the end of the file is reached
process_file_end(w) ==
    returned(w, atomic_outer(w.store, w.db, dry_run_rollback(w.self)))

\* return dict(count=..., new=..., ...)
Report(w) ==
    [count |-> w.self.count,
     new |-> w.self.new,
     added |-> w.self.added,
     changed |-> w.self.changed,
     warnings |-> w.self.warnings,
     dry_run |-> w.self.dry_run,
     overwrite |-> w.self.can_overwrite]

\* ------------------------------------------------- columns and the row
\* Column handling, for a loader with two columns of SequencingLoader.  A
\* header and a semantic key are strings; the text of a line and the value
\* of a field are sequences of characters, so that strip() and split() are
\* computed.
COLS == <<<<"pH", "ph">>, <<"drop", "note">>>>

\* the headers a file can come with
HeaderNames == {"pH", "PH", "ph", "drop", "Drop", "note", "other"}

\* str.casefold() on these headers
casefold(h) ==
    CASE h \in {"pH", "PH", "ph"} -> "ph"
      [] h \in {"drop", "Drop"} -> "drop"
      [] OTHER -> h

\* _cols = {i.casefold(): j for i, j in self.COLS}: a later descriptor
\* replaces an earlier one with the same casefolded header
cols_dict ==
    [c \in {casefold(COLS[d][1]) : d \in DOMAIN COLS} |->
        COLS[CHOOSE d \in DOMAIN COLS :
                /\ casefold(COLS[d][1]) = c
                /\ \A e \in DOMAIN COLS :
                      casefold(COLS[e][1]) = c => e <= d][2]]

\* self.cols as the loop of __init__ fills it
init_cols(names) ==
    [i \in 1..Len(names) |->
        IF casefold(names[i]) \in DOMAIN cols_dict
        THEN cols_dict[casefold(names[i])]
        ELSE names[i]]

is_ignored(h) == casefold(h) \notin DOMAIN cols_dict

\* self.ignored_columns as the loop of __init__ fills it
init_ignored(names) == SelectSeq(names, is_ignored)

\* valid_cols = [i[1] for i in self.COLS]
valid_cols == {COLS[d][2] : d \in DOMAIN COLS}

\* the characters of a line; the line terminator is left out
Chars == {"a", "n", "-", " ", "\t"}
Sep == "\t"
IsSpace(c) == c \in {" ", "\t"}

Texts == UNION {[1..n -> Chars] : n \in 0..MaxLen}

RECURSIVE lstrip(_)
lstrip(t) == IF t # <<>> /\ IsSpace(Head(t)) THEN lstrip(Tail(t)) ELSE t

RECURSIVE rstrip(_)
rstrip(t) ==
    IF t # <<>> /\ IsSpace(t[Len(t)])
    THEN rstrip(SubSeq(t, 1, Len(t) - 1))
    ELSE t

\* str.strip(): whitespace taken off both ends, the tab included
strip(t) == rstrip(lstrip(t))

\* str.split(sep)
RECURSIVE split(_, _)
split(t, sep) ==
    IF \E i \in 1..Len(t) : t[i] = sep
    THEN LET i == CHOOSE j \in 1..Len(t) :
                     t[j] = sep /\ \A k \in 1..(j - 1) : t[k] # sep
         IN <<SubSeq(t, 1, i - 1)>> \o split(SubSeq(t, i + 1, Len(t)), sep)
    ELSE <<t>>

\* Model.decode_blank(value): the placeholder of a blank value is decoded
\* to the empty string
BlankToken == <<"-">>
decode_blank(value) == IF value = BlankToken THEN <<>> ELSE value

\* missing_data: the empty string of AbstractLoader, and a compiled
\* pattern as a dataset adds them
missing_data ==
    <<[pattern |-> FALSE, text |-> <<>>], [pattern |-> TRUE, text |-> <<"n">>]>>

\* re.Pattern.match(value) for a pattern that is a literal text: the value
\* begins with it
match(p, value) ==
    Len(p) <= Len(value) /\ SubSeq(value, 1, Len(p)) = p

non_empty_undecoded(value) ==
    \A i \in DOMAIN missing_data :
        IF missing_data[i].pattern
        THEN ~match(missing_data[i].text, value)
        ELSE value # missing_data[i].text

non_empty(value) ==
    /\ \A i \in DOMAIN missing_data :
          IF missing_data[i].pattern
          THEN ~match(missing_data[i].text, value)
          ELSE value # missing_data[i].text
    /\ decode_blank(value) # <<>>

\* row = [i.strip() for i in line.strip().split(self.sep)]
split_line(text) ==
    LET parts == split(strip(text), Sep)
    IN [i \in 1..Len(parts) |-> strip(parts[i])]

\* the positions zip(self.cols, row) pairs and the filter keeps
kept(cs, fields) ==
    {i \in 1..Len(cs) :
        i <= Len(fields) /\ non_empty(fields[i]) /\ cs[i] \in valid_cols}

\* self.row = {k: v for k, v in zip(self.cols, row) if ...}: of two
\* columns with the same key the later one stays
build_row(cs, fields) ==
    [k \in {cs[i] : i \in kept(cs, fields)} |->
        fields[CHOOSE i \in kept(cs, fields) :
                  /\ cs[i] = k
                  /\ \A j \in kept(cs, fields) : cs[j] = k => j <= i]]

\* ------------------------------------------------------------------ state
VARIABLES
    self,      \* the loader object
    db,        \* the database as the open transaction sees it
    store,     \* the committed database
    pc,        \* "running", "returned" or "raised"
    exc,       \* the error process_file raised
    twin,      \* the same run on the same file with dry_run flipped
    store0,    \* the store when the run started
    acct,      \* what account() met on the line read last
    rowexc,    \* what its row handler raised
    outcome,   \* what became of it: "ok", "skipped", "raised"
    touched,   \* its row handler changed new, added or changed
    skipped,   \* the lines skipped with a warning so far
    unchecked, \* what the line had in the database before full_clean() ran
    wrote,     \* some line of the run was processed and wrote to the db
    nread,     \* the data lines the loop of process_file has read
    file,      \* the data lines of the file, where the file is loaded twice
    run,       \* 1 or 2: which load of the file this is, 0 for a single load
    first,     \* the report of the first load and the store it left
    colnames,  \* the headers the loader was constructed with
    cols,      \* self.cols
    ignored_columns,   \* self.ignored_columns
    line,      \* the text of the line at hand
    row,       \* self.row, the normalized row made of it
    built      \* process_line has made self.row of the line

loadvars == <<self, db, store, pc, exc, twin, store0, acct, rowexc, outcome,
              touched, skipped, unchecked, wrote, nread, file, run, first>>

rowvars == <<colnames, cols, ignored_columns, line, row, built>>

\* the shared default argument of process_sample_id and the sample table
VARIABLES
    from_row_default,  \* the dict object that from_row={} is bound to
    samples,           \* the sample table as the open transaction sees it
    samples0,          \* the committed sample table
    proposed,          \* the from_row passed to get_or_create and account
    srow,              \* the normalized row of the line read last
    spc,               \* "running" or "raised"
    scount,            \* the lines of the run read so far
    srun               \* the number of the run in this process

samplevars == <<from_row_default, samples, samples0, proposed, srow, spc,
                scount, srun>>

\* no sample file is loaded
SampleIdle ==
    /\ from_row_default = <<>>
    /\ samples = <<>>
    /\ samples0 = <<>>
    /\ proposed = <<>>
    /\ srow = <<>>
    /\ spc = "off"
    /\ scount = 0
    /\ srun = 0

\* ASV.from_fasta and the ASV table
VARIABLES
    asvs,      \* the ASV table as the open transaction sees it
    asvs0,     \* the committed ASV table
    fstats,    \* the locals added, updated and total
    irregular, \* the local irregular: pairs of a fasta id and a sequence
    frec,      \* the fasta record read last
    fpc        \* "running", "returned" or "raised"

fastavars == <<asvs, asvs0, fstats, irregular, frec, fpc>>

\* no fasta file is loaded
FastaIdle ==
    /\ asvs = {}
    /\ asvs0 = {}
    /\ fstats = <<>>
    /\ irregular = {}
    /\ frec = <<>>
    /\ fpc = "off"

\* a CSV_Spec object and the calls of its cut()
VARIABLES
    column_specs,  \* self._spec
    all_keys,      \* self.all_keys
    keys,          \* self.keys
    convfuncs,     \* self.convfuncs
    crow,          \* the row given to the last call of cut()
    cout,          \* the values that call yielded, in order
    ncut           \* the calls of cut() so far

csvvars == <<column_specs, all_keys, keys, convfuncs, crow, cout, ncut>>

\* no CSV_Spec is made
CsvIdle ==
    /\ column_specs = <<>>
    /\ all_keys = <<>>
    /\ keys = <<>>
    /\ convfuncs = <<>>
    /\ crow = <<>>
    /\ cout = <<>>
    /\ ncut = 0

\* a ProgressPrinter, its main thread and its timer threads
VARIABLES
    current,           \* self.current
    at_previous_ring,  \* self.at_previous_ring
    timer,             \* self.timer: the number of the Timer, 0 for None
    timer_lock,        \* who holds self.timer_lock: "free", "main", "ring"
    tstate,            \* per Timer: not made, pending, cancelled, the
                       \* statement of _ring() its thread is at, or done
    mpc,               \* the statement the main thread is at
    ncalls,            \* the calls the main thread has made
    finished,          \* finish() has returned and nothing was called since
    printed,           \* the progress lines the timer threads have printed
    watch,             \* at the start of the last inc(): had the timer
                       \* stopped, and the Timers made until then
    rings_after_stop   \* the Timers that fired after the main thread stopped

ppvars == <<current, at_previous_ring, timer, timer_lock, tstate, mpc,
            ncalls, finished, printed, watch, rings_after_stop>>

\* the value None of current and at_previous_ring
NoCount == -1

\* no ProgressPrinter is made
PrinterIdle ==
    /\ current = NoCount
    /\ at_previous_ring = NoCount
    /\ timer = 0
    /\ timer_lock = "free"
    /\ tstate = <<>>
    /\ mpc = "off"
    /\ ncalls = 0
    /\ finished = FALSE
    /\ printed = 0
    /\ watch = [stopped |-> FALSE, made |-> 0]
    /\ rings_after_stop = 0

utilvars == <<samplevars, fastavars, csvvars, ppvars>>

UtilsIdle == SampleIdle /\ FastaIdle /\ CsvIdle /\ PrinterIdle

vars == <<loadvars, rowvars, utilvars>>

\* The entity a line names as the store holds it when the line is read:
\* absent ("new"), or present with the fields of the line that differ from
\* it, each with its stored and its proposed value
NoAcct == [obj |-> "", case |-> "none", diff |-> {}]

Met(d, ln) ==
    IF ln.err.at = "pre" THEN NoAcct
    ELSE IF ln.err.at = "lookup"
    THEN [obj |-> ln.participant, case |-> "ambiguous", diff |-> {}]
    ELSE IF ln.participant \notin DOMAIN d.ent
    THEN [obj |-> ln.participant, case |-> "new", diff |-> {}]
    ELSE IF ~ln.given
    THEN [obj |-> ln.participant, case |-> "nofrom", diff |-> {}]
    ELSE LET e == d.ent[ln.participant]
             diff == {<<f, e[f], ln.from_row[f]>> :
                        f \in {g \in DOMAIN ln.from_row : e[g] # ln.from_row[g]}}
         IN [obj |-> ln.participant,
             case |-> IF diff = {} THEN "same"
                      ELSE IF \A t \in diff : t[2] = Empty THEN "consistent"
                      ELSE "conflict",
             diff |-> diff]

\* The entities the database holds when account() is entered that the line
\* has put there: g is what get_or_create returned
Unchecked(d, g, ln) ==
    IF ln.err.at \in {"pre", "lookup"} THEN {}
    ELSE {n \in DOMAIN g.db.ent : n \notin DOMAIN d.ent}

World == [self |-> self, db |-> db, store |-> store, pc |-> pc, exc |-> exc]

\* a loader constructed with the given options on the store s
Start(co, woe, dr, user, s) ==
    /\ self = LoaderInit(co, woe, dr, user)
    /\ db = s
    /\ store = s
    /\ pc = "running"
    /\ exc = NoExc
    /\ twin = [self |-> LoaderInit(co, woe, ~dr, user), db |-> s, store |-> s,
               pc |-> "running", exc |-> NoExc]
    /\ store0 = s
    /\ acct = NoAcct
    /\ rowexc = NoExc
    /\ outcome = "start"
    /\ touched = FALSE
    /\ skipped = <<>>
    /\ unchecked = {}
    /\ wrote = FALSE
    /\ nread = 0

\* a loader constructed for the headers names, and the text of a line
Columns(names, text) ==
    /\ colnames = names
    /\ cols = init_cols(names)
    /\ ignored_columns = init_ignored(names)
    /\ line = text
    /\ row = <<>>
    /\ built = FALSE

\* one load of a file whose lines are read as they come; its lines are
\* taken as the normalized rows of a file with the headers of COLS
OneLoad ==
    /\ file = <<>> /\ run = 0 /\ first = None
    /\ Columns(<<"pH", "drop">>, <<>>)

Init ==
    /\ \E co \in BOOLEAN, woe \in BOOLEAN, dr \in BOOLEAN, s \in InitStores :
          Start(co, woe, dr, NoUser, s)
    /\ OneLoad
    /\ UtilsIdle

\* what became of the line: w1 is the world after it, r what its row
\* handler left
Outcome(w1, r) ==
    IF w1.pc = "raised" THEN "raised"
    ELSE IF r.exc # NoExc THEN "skipped" ELSE "ok"

Observe(w1, r, oc) ==
    /\ outcome' = oc
    /\ rowexc' = r.exc
    /\ touched' = (\/ r.self.new # self.new
                   \/ r.self.added # self.added
                   \/ r.self.changed # self.changed)
    /\ skipped' = IF oc = "skipped"
                  THEN Append(skipped, [line |-> r.exc.line,
                                        kind |-> r.exc.kind,
                                        msg |-> r.exc.msg])
                  ELSE skipped
    /\ wrote' = (wrote \/ (oc = "ok" /\ w1.db # db))
    /\ nread' = nread + 1

LineStep(w1, r) ==
    /\ self' = w1.self
    /\ db' = w1.db
    /\ store' = w1.store
    /\ pc' = w1.pc
    /\ exc' = w1.exc
    /\ Observe(w1, r, Outcome(w1, r))

\* self.process_line(i) for the line ln, in the run and in its twin
ReadLine(ln) ==
    /\ LineStep(process_file_step(World, ln), RowResult(World, ln))
    /\ twin' = process_file_step(twin, ln)
    /\ acct' = Met(db, ln)
    /\ unchecked' =
          Unchecked(db, get_or_create(db, ln.participant, ln.from_row), ln)

\* for i in file: self.process_line(i)
ProcessLine ==
    /\ pc = "running"
    /\ self.count < MaxLines
    /\ \E ln \in Lines : ReadLine(ln)
    /\ UNCHANGED <<store0, file, run, first, rowvars, utilvars>>

EndStep(w1) ==
    /\ db' = w1.db
    /\ store' = w1.store
    /\ pc' = w1.pc

\* the loop is over: commit, or roll back for a dry run, and return the report
EndOfFile ==
    /\ pc = "running"
    /\ EndStep(process_file_end(World))
    /\ twin' = process_file_end(twin)
    /\ outcome' = "eof"
    /\ acct' = NoAcct
    /\ rowexc' = NoExc
    /\ unchecked' = {}
    /\ UNCHANGED <<self, exc, store0, touched, skipped, wrote, nread, file,
                   run, first, rowvars, utilvars>>

Next == ProcessLine \/ EndOfFile

Spec == Init /\ [][Next]_vars

\* the loads that write, run on the command line or for a user of the site
InitAudit ==
    /\ \E co \in BOOLEAN, user \in Users, s \in InitStores :
          Start(co, TRUE, FALSE, user, s)
    /\ OneLoad
    /\ UtilsIdle

SpecAudit == InitAudit /\ [][Next]_vars

\* ---------------------------------------------- a file with a note column
\* loads of a file whose lines name notes, on a store with or without one
InitNotes ==
    /\ \E woe \in BOOLEAN, dr \in BOOLEAN, s \in InitStores \cup NoteStores :
          Start(TRUE, woe, dr, NoUser, s)
    /\ OneLoad
    /\ UtilsIdle

NoteLine ==
    /\ pc = "running"
    /\ self.count < MaxLines
    /\ \E ln \in NoteLines : ReadLine(ln)
    /\ UNCHANGED <<store0, file, run, first, rowvars, utilvars>>

NextNotes == NoteLine \/ EndOfFile

SpecNotes == InitNotes /\ [][NextNotes]_vars

\* ------------------------------------------------- the same file, twice
\* the well-formed files without duplicate natural keys: no line raises, no
\* two lines name the same participant
Files ==
    {f \in UNION {[1..n -> {l \in Lines : l.err = NoErr}] : n \in 0..MaxLines} :
        \A i, j \in 1..Len(f) : i # j => f[i].participant # f[j].participant}

\* a load that is no dry run, with can_overwrite on or off
InitTwice ==
    /\ \E co \in BOOLEAN, woe \in BOOLEAN, s \in InitStores :
          Start(co, woe, FALSE, NoUser, s)
    /\ file \in Files
    /\ run = 1
    /\ first = None
    /\ Columns(<<"pH", "drop">>, <<>>)
    /\ UtilsIdle

\* for i in file: self.process_line(i), for the file at hand
FileLine ==
    /\ pc = "running"
    /\ self.count < Len(file)
    /\ LineStep(process_file_step(World, file[self.count + 1]),
                RowResult(World, file[self.count + 1]))
    /\ acct' = Met(db, file[self.count + 1])
    /\ unchecked' =
          Unchecked(db, get_or_create(db, file[self.count + 1].participant,
                                      file[self.count + 1].from_row),
                    file[self.count + 1])
    /\ UNCHANGED <<twin, store0, file, run, first, rowvars, utilvars>>

FileEnd ==
    /\ pc = "running"
    /\ self.count = Len(file)
    /\ EndStep(process_file_end(World))
    /\ outcome' = "eof"
    /\ acct' = NoAcct
    /\ rowexc' = NoExc
    /\ UNCHANGED <<self, exc, twin, store0, touched, skipped, unchecked,
                   wrote, nread, file, run, first, rowvars, utilvars>>

\* the file is loaded again with can_overwrite false, on the store the
\* first load committed
LoadAgain ==
    /\ pc = "returned"
    /\ run = 1
    /\ self' = LoaderInit(FALSE, self.warn_on_error, FALSE, self.user)
    /\ pc' = "running"
    /\ run' = 2
    /\ first' = [report |-> Report(World), store |-> store]
    /\ outcome' = "start"
    /\ nread' = 0
    /\ UNCHANGED <<db, store, exc, twin, store0, acct, rowexc, touched,
                   skipped, unchecked, wrote, file, rowvars, utilvars>>

NextTwice == FileLine \/ FileEnd \/ LoadAgain

SpecTwice == InitTwice /\ [][NextTwice]_vars

\* ------------------------------------------- the row of a line of text
\* a loader constructed for any headers, and any line of text
InitRow ==
    /\ Start(TRUE, FALSE, FALSE, NoUser,
             [ent |-> <<>>, audit |-> {}, notes |-> {}])
    /\ file = <<>> /\ run = 0 /\ first = None
    /\ \E names \in UNION {[1..n -> HeaderNames] : n \in 0..MaxCols},
          text \in Texts :
          Columns(names, text)
    /\ UtilsIdle

\* the first statements of process_line: the line is split and self.row
\* made of its fields
ReadRow ==
    /\ ~built
    /\ row' = build_row(cols, split_line(line))
    /\ built' = TRUE
    /\ UNCHANGED <<loadvars, colnames, cols, ignored_columns, line, utilvars>>

NextRow == ReadRow

SpecRow == InitRow /\ [][NextRow]_vars

\* -------------------------------------------------- process_sample_id
\* SequencingLoader.process_sample_id and AbstractLoader.process_sample_id,
\* for files with the columns Sample_ID, pH, Bristol and Study_week.  The
\* default argument from_row={} is one dict object made when the function
\* is defined: every call without an argument gets that same object, and
\* what a call writes into it stays.

\* no loader of the bulk model is at work
LoaderIdle ==
    /\ Start(TRUE, FALSE, FALSE, NoUser,
             [ent |-> <<>>, audit |-> {}, notes |-> {}])
    /\ OneLoad

\* FecalSample.parse_id: the participant and the number in a sample id
parse_id(sid) ==
    IF sid = "p1_1"
    THEN [participant |-> "p1", number |-> "1"]
    ELSE [participant |-> "p1", number |-> "2"]

SampleFields == {"participant", "number", "week", "ph", "bristol"}

\* the normalized rows of such a file: a sample id, and any of the others
SampleValues ==
    [sample_id |-> {"p1_1", "p1_2"}, ph |-> {"NA", "6"},
     bristol |-> {"NA", "3"}, week |-> {"w1"}]

SampleRows ==
    UNION {{r \in [D \cup {"sample_id"} -> {"p1_1", "p1_2", "NA", "6", "3", "w1"}] :
               \A k \in DOMAIN r : r[k] \in SampleValues[k]} :
             D \in SUBSET {"ph", "bristol", "week"}}

\* self.get_from_row(*keys)
get_from_row(r, names) == [k \in names \cap DOMAIN r |-> r[k]]

\* dict.update(other) and del d[k]
update(d, other) ==
    [k \in DOMAIN d \cup DOMAIN other |->
        IF k \in DOMAIN other THEN other[k] ELSE d[k]]

del(d, k) == [j \in DOMAIN d \ {k} |-> d[j]]

\* one turn of "for i in ['ph', 'bristol']: if from_row[i] == 'NA': del
\* from_row[i]" on x = [from_row, exc]
drop_NA(x, i) ==
    IF x.exc # "none" THEN x
    ELSE IF i \notin DOMAIN x.from_row THEN [x EXCEPT !.exc = "KeyError"]
    ELSE IF x.from_row[i] = "NA"
    THEN [x EXCEPT !.from_row = del(@, i)]
    ELSE x

\* SequencingLoader.process_sample_id up to the call of super()
sequencing_sample_id(from_row, r) ==
    drop_NA(drop_NA([from_row |-> update(from_row,
                                         get_from_row(r, {"ph", "bristol"})),
                     exc |-> "none"],
                    "ph"),
            "bristol")

\* the object a call without the argument gets for from_row
default_arg(from_row) == from_row

\* AbstractLoader.process_sample_id up to get_or_create: the row has a
\* sample_id that parses and no participant column
abstract_sample_id(from_row, r) ==
    IF "week" \in DOMAIN r
    THEN update(update(from_row, parse_id(r.sample_id)),
                [k \in {"week"} |-> r.week])
    ELSE update(from_row, parse_id(r.sample_id))

\* get_or_create(defaults=from_row, participant=..., number=...) and, for
\* a sample that was found, account() with can_overwrite as constructed
sample_account(tbl, sid, from_row) ==
    IF sid \notin DOMAIN tbl
    THEN [n \in DOMAIN tbl \cup {sid} |->
            IF n = sid
            THEN [f \in SampleFields |->
                    IF f \in DOMAIN from_row THEN from_row[f] ELSE Empty]
            ELSE tbl[n]]
    ELSE IF compare(tbl[sid], from_row).diff = {} THEN tbl
    ELSE IF applies(compare(tbl[sid], from_row).consistent, TRUE)
    THEN [tbl EXCEPT ![sid] =
            [f \in SampleFields |->
                IF f \in DOMAIN from_row THEN from_row[f] ELSE @[f]]]
    ELSE tbl

\* a process that has imported the module, and its first run
InitSample ==
    /\ LoaderIdle
    /\ from_row_default = <<>>
    /\ samples = <<>>
    /\ samples0 = <<>>
    /\ proposed = <<>>
    /\ srow = <<>>
    /\ spc = "running"
    /\ scount = 0
    /\ srun = 1
    /\ FastaIdle
    /\ CsvIdle
    /\ PrinterIdle

\* x is what SequencingLoader.process_sample_id left of the dict
SampleStep(x, r) ==
    IF x.exc # "none"
    THEN /\ from_row_default' = x.from_row
         /\ proposed' = <<>>
         /\ samples' = samples0
         /\ spc' = "raised"
    ELSE /\ from_row_default' = abstract_sample_id(x.from_row, r)
         /\ proposed' = abstract_sample_id(x.from_row, r)
         /\ samples' = sample_account(samples, r.sample_id,
                                      abstract_sample_id(x.from_row, r))
         /\ spc' = "running"

\* self.process_sample_id() of process_row, for one line of the file
SampleLine ==
    /\ spc = "running"
    /\ scount < MaxLines
    /\ \E r \in SampleRows :
          /\ SampleStep(sequencing_sample_id(default_arg(from_row_default), r), r)
          /\ srow' = r
    /\ scount' = scount + 1
    /\ UNCHANGED <<samples0, srun, loadvars, rowvars, fastavars, csvvars,
                   ppvars>>

\* the run is over, committed or rolled back, and the process makes a
\* second loader for another file
SampleNextRun ==
    /\ srun = 1
    /\ srun' = 2
    /\ spc' = "running"
    /\ scount' = 0
    /\ samples0' = samples
    /\ proposed' = <<>>
    /\ srow' = <<>>
    /\ UNCHANGED <<from_row_default, samples, loadvars, rowvars, fastavars,
                   csvvars, ppvars>>

NextSample == SampleLine \/ SampleNextRun

SpecSample == InitSample /\ [][NextSample]_vars

\* ------------------------------------------------------- ASV.from_fasta
\* An ASV is [sequence, number]; sequence is unique, number is unique
\* among the ASVs that have one.

\* number = NULL
NoNumber == -1

PREFIX == <<"A", "S", "V">>

Sequences == {"s1", "s2"}

\* fasta ids, as strings of characters: ASV01, ASV02, ASV00, otu1, seq
FastaIds ==
    {PREFIX \o <<"0", "1">>, PREFIX \o <<"0", "2">>, PREFIX \o <<"0", "0">>,
     <<"o", "t", "u", "1">>, <<"s", "e", "q">>}

Digits == <<"0", "1", "2">>

IsDigit(c) == \E d \in 1..Len(Digits) : Digits[d] = c

DigitValue(c) == (CHOOSE d \in 1..Len(Digits) : Digits[d] = c) - 1

\* int(text): [ok, number]; not ok is ValueError
RECURSIVE int(_)
int(text) ==
    IF Len(text) = 0 \/ \E i \in 1..Len(text) : ~IsDigit(text[i])
    THEN [ok |-> FALSE, number |-> NoNumber]
    ELSE IF Len(text) = 1
    THEN [ok |-> TRUE, number |-> DigitValue(text[1])]
    ELSE [ok |-> TRUE,
          number |-> 10 * int(SubSeq(text, 1, Len(text) - 1)).number
                     + DigitValue(text[Len(text)])]

\* ASV.natural_lookup(value): the number after the first len(PREFIX)
\* characters, whatever these are
natural_lookup(value) == int(SubSeq(value, Len(PREFIX) + 1, Len(value)))

\* the ASV tables the constraints allow
UniqueASVs(tbl) ==
    \A a \in tbl, b \in tbl :
        (a # b) => /\ a.sequence # b.sequence
                   /\ (a.number # NoNumber => a.number # b.number)

ASVTables ==
    {tbl \in SUBSET [sequence : Sequences, number : {NoNumber, 1, 2}] :
        UniqueASVs(tbl)}

\* the rows get_or_create(sequence=seq, **numkw) looks up
asv_lookup(tbl, seq, lk) ==
    {a \in tbl : a.sequence = seq /\ (lk.ok => a.number = lk.number)}

\* cls.objects.get_or_create(sequence=i.seq, **numkw):
\* [obj, new, exc, tbl]
asv_get_or_create(tbl, seq, lk) ==
    IF asv_lookup(tbl, seq, lk) # {}
    THEN [obj |-> CHOOSE a \in asv_lookup(tbl, seq, lk) : TRUE,
          new |-> FALSE, exc |-> "none", tbl |-> tbl]
    ELSE IF UniqueASVs(tbl \cup {[sequence |-> seq, number |-> lk.number]})
            /\ \A a \in tbl : a.sequence # seq
    THEN [obj |-> [sequence |-> seq, number |-> lk.number],
          new |-> TRUE, exc |-> "none",
          tbl |-> tbl \cup {[sequence |-> seq, number |-> lk.number]}]
    ELSE [obj |-> [sequence |-> seq, number |-> lk.number],
          new |-> FALSE, exc |-> "IntegrityError", tbl |-> tbl]

\* "if obj.number is None and number": number is None or 0 is false
updates_number(g, lk) ==
    ~g.new /\ g.obj.number = NoNumber /\ lk.ok /\ lk.number # 0

\* the body of the loop over the records, g the result of get_or_create
FastaBody(rec, lk, g) ==
    IF g.exc # "none"
    THEN /\ fpc' = "raised"
         /\ asvs' = asvs0
         /\ UNCHANGED <<fstats, irregular>>
    ELSE /\ fpc' = "running"
         /\ asvs' = IF updates_number(g, lk)
                    THEN (g.tbl \ {g.obj})
                         \cup {[g.obj EXCEPT !.number = lk.number]}
                    ELSE g.tbl
         /\ fstats' = [added |-> fstats.added + (IF g.new THEN 1 ELSE 0),
                       updated |-> fstats.updated
                                   + (IF updates_number(g, lk) THEN 1 ELSE 0),
                       total |-> fstats.total + 1]
         /\ irregular' = IF lk.ok THEN irregular
                         ELSE {p \in irregular : p[1] # rec.id}
                              \cup {<<rec.id, g.obj.sequence>>}

\* from_fasta is entered: the transaction opens on some allowed table
InitFasta ==
    /\ LoaderIdle
    /\ SampleIdle
    /\ asvs0 \in ASVTables
    /\ asvs = asvs0
    /\ fstats = [added |-> 0, updated |-> 0, total |-> 0]
    /\ irregular = {}
    /\ frec = <<>>
    /\ fpc = "running"
    /\ CsvIdle
    /\ PrinterIdle

\* one turn of "for i in SeqIO.parse(file, 'fasta')"
FastaRecord ==
    /\ fpc = "running"
    /\ fstats.total < MaxLines
    /\ \E rec \in [id : FastaIds, seq : Sequences] :
          /\ frec' = rec
          /\ FastaBody(rec, natural_lookup(rec.id),
                       asv_get_or_create(asvs, rec.seq,
                                         natural_lookup(rec.id)))
    /\ UNCHANGED <<asvs0, loadvars, rowvars, samplevars, csvvars, ppvars>>

\* the file is at its end: from_fasta returns and the transaction commits
FastaEnd ==
    /\ fpc = "running"
    /\ fpc' = "returned"
    /\ asvs0' = asvs
    /\ UNCHANGED <<asvs, fstats, irregular, frec, loadvars, rowvars,
                   samplevars, csvvars, ppvars>>

NextFasta == FastaRecord \/ FastaEnd

SpecFasta == InitFasta /\ [][NextFasta]_vars

\* ------------------------------------------------------------- CSV_Spec
\* the value None among semantic keys and conversion functions
PyNone == "None"

Keys == {"k1", "k2"}

\* the items of column_specs: a tuple (colname, key) or (colname, key,
\* convfunc) with a callable convfunc, or a bare key
ColumnSpecItems ==
    [tuple : {TRUE}, key : Keys \cup {PyNone}, convfunc : {<<>>, <<"f">>}]
    \cup [tuple : {FALSE}, key : Keys \cup {PyNone}, convfunc : {<<>>}]

ColumnSpecs == UNION {[1..n -> ColumnSpecItems] : n \in 1..MaxCols}

\* the lists all_keys, keys and conv after the loop of setup() has seen
\* the first n items
RECURSIVE setup(_, _)
setup(specs, n) ==
    IF n = 0
    THEN [all_keys |-> <<>>, keys |-> <<>>, conv |-> <<>>]
    ELSE IF specs[n].key = PyNone
    THEN [setup(specs, n - 1) EXCEPT !.all_keys = Append(@, PyNone)]
    ELSE [all_keys |-> Append(setup(specs, n - 1).all_keys, specs[n].key),
          keys |-> Append(setup(specs, n - 1).keys, specs[n].key),
          conv |-> Append(setup(specs, n - 1).conv,
                          IF specs[n].tuple /\ specs[n].convfunc # <<>>
                          THEN specs[n].convfunc[1]
                          ELSE PyNone)]

\* zip(a, b) stops with the shorter one
ZipLen(a, b) == IF Len(a) < Len(b) THEN Len(a) ELSE Len(b)

\* what cut() has yielded when zip(self.all_keys, row) has given n pairs
RECURSIVE cut_all(_, _, _)
cut_all(akeys, r, n) ==
    IF n = 0 THEN <<>> ELSE Append(cut_all(akeys, r, n - 1), r[n])

RECURSIVE cut(_, _, _)
cut(akeys, r, n) ==
    IF n = 0 THEN <<>>
    ELSE IF akeys[n] # PyNone
    THEN Append(cut(akeys, r, n - 1), r[n])
    ELSE cut(akeys, r, n - 1)

CsvValues == {"a", "b"}

CsvRows == UNION {[1..n -> CsvValues] : n \in 0..MaxLen}

\* CSV_Spec(*column_specs)
InitCsv ==
    /\ LoaderIdle
    /\ SampleIdle
    /\ FastaIdle
    /\ column_specs \in ColumnSpecs
    /\ all_keys = setup(column_specs, Len(column_specs)).all_keys
    /\ keys = setup(column_specs, Len(column_specs)).keys
    /\ convfuncs = setup(column_specs, Len(column_specs)).conv
    /\ crow = <<>>
    /\ cout = <<>>
    /\ ncut = 0
    /\ PrinterIdle

\* list(spec.cut(row))
Cut ==
    /\ column_specs # <<>>
    /\ ncut < MaxLines
    /\ \E r \in CsvRows :
          /\ crow' = r
          /\ cout' = cut(all_keys, r, ZipLen(all_keys, r))
    /\ ncut' = ncut + 1
    /\ UNCHANGED <<column_specs, all_keys, keys, convfuncs, loadvars,
                   rowvars, samplevars, fastavars, ppvars>>

NextCsv == Cut

SpecCsv == InitCsv /\ [][NextCsv]_vars

\* ------------------------------------------------------ ProgressPrinter
\* The main thread calls __call__(), inc() and finish(); every Timer runs
\* _ring() on a thread of its own when its interval is over, unless it
\* was cancelled before.  A step of a thread is one statement that reads
\* or writes what the threads share.

MaxCalls == 3

\* a Timer is made only after one of the main thread's writes, or first
Timers == 1..(MaxCalls + 2)

others == <<loadvars, rowvars, samplevars, fastavars, csvvars>>

\* the Timers made so far; the next one gets the next number
Made == {t \in Timers : tstate[t] # "unused"}

Pending == {t \in Timers : tstate[t] = "pending"}

Ringing == {t \in Timers : tstate[t] \notin {"unused", "pending", "cancelled", "done"}}

\* ProgressPrinter(...)
InitPrinter ==
    /\ LoaderIdle
    /\ SampleIdle
    /\ FastaIdle
    /\ CsvIdle
    /\ current = NoCount
    /\ at_previous_ring = NoCount
    /\ timer = 0
    /\ timer_lock = "free"
    /\ tstate = [t \in Timers |-> "unused"]
    /\ mpc = "idle"
    /\ ncalls = 0
    /\ finished = FALSE
    /\ printed = 0
    /\ watch = [stopped |-> FALSE, made |-> 0]
    /\ rings_after_stop = 0

\* _reset_state(): what it does to current and at_previous_ring
reset_state ==
    /\ current' = 0
    /\ at_previous_ring' = NoCount

\* "if reset or self.timer is None"
starts_timer_always(reset, tmr) == TRUE

starts_timer(reset, tmr) == reset \/ tmr = 0

\* self.timer = Timer(self.interval, self._ring); self.timer.start()
start_timer ==
    /\ Made # Timers
    /\ timer' = Cardinality(Made) + 1
    /\ tstate' = [tstate EXCEPT ![Cardinality(Made) + 1] = "pending"]

\* the statements of _set_timer() under the lock
set_timer(reset) ==
    IF starts_timer(reset, timer)
    THEN start_timer
    ELSE UNCHANGED <<timer, tstate>>

\* "if self.current == self.at_previous_ring: return"
ring_never_stops(cur, apr) == FALSE

ring_stops(cur, apr) == cur = apr

\* the main thread starts a call
Called ==
    /\ mpc = "idle"
    /\ ncalls < MaxCalls
    /\ ncalls' = ncalls + 1
    /\ finished' = FALSE

\* __call__(it) up to its loop: _reset_state()
PPCall ==
    /\ Called
    /\ reset_state
    /\ UNCHANGED <<timer, timer_lock, tstate, mpc, printed, watch,
                   rings_after_stop, others>>

\* inc(): "if self.current is None: self._reset_state()" and
\* "if self.current == 0"
IncBegin ==
    /\ Called
    /\ IF current = NoCount THEN reset_state
       ELSE UNCHANGED <<current, at_previous_ring>>
    /\ mpc' = IF current' = 0 THEN "inc_acquire" ELSE "inc_add"
    /\ watch' = [stopped |-> timer # 0 /\ Pending \cup Ringing = {},
                 made |-> Cardinality(Made)]
    /\ UNCHANGED <<timer, timer_lock, tstate, printed, rings_after_stop,
                   others>>

\* inc(): _set_timer(): "if self.timer_lock.acquire(blocking=False)"
IncAcquire ==
    /\ mpc = "inc_acquire"
    /\ IF timer_lock = "free"
       THEN timer_lock' = "main" /\ mpc' = "inc_set"
       ELSE timer_lock' = timer_lock /\ mpc' = "inc_add"
    /\ UNCHANGED <<current, at_previous_ring, timer, tstate, ncalls,
                   finished, printed, watch, rings_after_stop, others>>

\* inc(): _set_timer(): the Timer is made and started, or not
IncSetTimer ==
    /\ mpc = "inc_set"
    /\ set_timer(FALSE)
    /\ mpc' = "inc_release"
    /\ UNCHANGED <<current, at_previous_ring, timer_lock, ncalls, finished,
                   printed, watch, rings_after_stop, others>>

\* inc(): _set_timer(): self.timer_lock.release()
IncRelease ==
    /\ mpc = "inc_release"
    /\ timer_lock' = "free"
    /\ mpc' = "inc_add"
    /\ UNCHANGED <<current, at_previous_ring, timer, tstate, ncalls,
                   finished, printed, watch, rings_after_stop, others>>

\* inc(): "self.current += step", and inc() returns
IncAdd ==
    /\ mpc = "inc_add"
    /\ current' = current + 1
    /\ mpc' = "idle"
    /\ UNCHANGED <<at_previous_ring, timer, timer_lock, tstate, ncalls,
                   finished, printed, watch, rings_after_stop, others>>

\* finish(): "if self.current is None: self._reset_state()"
FinishBegin ==
    /\ Called
    /\ IF current = NoCount THEN reset_state
       ELSE UNCHANGED <<current, at_previous_ring>>
    /\ mpc' = "finish_acquire"
    /\ UNCHANGED <<timer, timer_lock, tstate, printed, watch,
                   rings_after_stop, others>>

\* finish(): self.timer_lock.acquire() waits for the lock
FinishAcquire ==
    /\ mpc = "finish_acquire"
    /\ timer_lock = "free"
    /\ timer_lock' = "main"
    /\ mpc' = "finish_cancel"
    /\ UNCHANGED <<current, at_previous_ring, timer, tstate, ncalls,
                   finished, printed, watch, rings_after_stop, others>>

\* finish(): self.timer.cancel() stops a Timer that has not fired; it
\* does nothing to one that has, and with no Timer the error is passed
FinishCancel ==
    /\ mpc = "finish_cancel"
    /\ tstate' = IF timer # 0 /\ tstate[timer] = "pending"
                 THEN [tstate EXCEPT ![timer] = "cancelled"]
                 ELSE tstate
    /\ mpc' = "finish_release"
    /\ UNCHANGED <<current, at_previous_ring, timer, timer_lock, ncalls,
                   finished, printed, watch, rings_after_stop, others>>

\* finish(): self.timer_lock.release()
FinishRelease ==
    /\ mpc = "finish_release"
    /\ timer_lock' = "free"
    /\ mpc' = "finish_print"
    /\ UNCHANGED <<current, at_previous_ring, timer, tstate, ncalls,
                   finished, printed, watch, rings_after_stop, others>>

\* finish(): the line with the totals is printed
FinishPrint ==
    /\ mpc = "finish_print"
    /\ mpc' = "finish_reset"
    /\ UNCHANGED <<current, at_previous_ring, timer, timer_lock, tstate,
                   ncalls, finished, printed, watch, rings_after_stop,
                   others>>

\* finish(): self._reset_state(), and finish() returns
FinishReset ==
    /\ mpc = "finish_reset"
    /\ reset_state
    /\ mpc' = "idle"
    /\ finished' = TRUE
    /\ UNCHANGED <<timer, timer_lock, tstate, ncalls, printed, watch,
                   rings_after_stop, others>>

\* the main thread makes no further call, as after an exception in the
\* loop that calls inc()
Stop ==
    /\ mpc = "idle"
    /\ mpc' = "stopped"
    /\ UNCHANGED <<current, at_previous_ring, timer, timer_lock, tstate,
                   ncalls, finished, printed, watch, rings_after_stop,
                   others>>

\* the interval of Timer t is over: its thread calls _ring()
Fire(t) ==
    /\ tstate[t] = "pending"
    /\ tstate' = [tstate EXCEPT ![t] = "ring_check"]
    /\ rings_after_stop' = rings_after_stop
                            + (IF mpc = "stopped" THEN 1 ELSE 0)
    /\ UNCHANGED <<current, at_previous_ring, timer, timer_lock, mpc,
                   ncalls, finished, printed, watch, others>>

\* _ring(): "if self.current == 0: return"
RingCheck(t) ==
    /\ tstate[t] = "ring_check"
    /\ tstate' = [tstate EXCEPT
                     ![t] = IF current = 0 THEN "done" ELSE "ring_print"]
    /\ UNCHANGED <<current, at_previous_ring, timer, timer_lock, mpc,
                   ncalls, finished, printed, watch, rings_after_stop,
                   others>>

\* _ring(): self.print_progress()
RingPrint(t) ==
    /\ tstate[t] = "ring_print"
    /\ printed' = printed + 1
    /\ tstate' = [tstate EXCEPT ![t] = "ring_compare"]
    /\ UNCHANGED <<current, at_previous_ring, timer, timer_lock, mpc,
                   ncalls, finished, watch, rings_after_stop, others>>

\* _ring(): "if self.current == self.at_previous_ring: return"
RingCompare(t) ==
    /\ tstate[t] = "ring_compare"
    /\ tstate' = [tstate EXCEPT
                     ![t] = IF ring_stops(current, at_previous_ring)
                            THEN "done" ELSE "ring_assign"]
    /\ UNCHANGED <<current, at_previous_ring, timer, timer_lock, mpc,
                   ncalls, finished, printed, watch, rings_after_stop,
                   others>>

\* _ring(): self.at_previous_ring = self.current
RingAssign(t) ==
    /\ tstate[t] = "ring_assign"
    /\ at_previous_ring' = current
    /\ tstate' = [tstate EXCEPT ![t] = "ring_acquire"]
    /\ UNCHANGED <<current, timer, timer_lock, mpc, ncalls, finished,
                   printed, watch, rings_after_stop, others>>

\* _ring(): _set_timer(reset=True): the lock is taken if it is free
RingAcquire(t) ==
    /\ tstate[t] = "ring_acquire"
    /\ IF timer_lock = "free"
       THEN /\ timer_lock' = "ring"
            /\ tstate' = [tstate EXCEPT ![t] = "ring_set"]
       ELSE /\ timer_lock' = timer_lock
            /\ tstate' = [tstate EXCEPT ![t] = "done"]
    /\ UNCHANGED <<current, at_previous_ring, timer, mpc, ncalls, finished,
                   printed, watch, rings_after_stop, others>>

\* the new Timer of _set_timer(reset=True) under the lock
ring_set_timer(t) ==
    IF starts_timer(TRUE, timer)
    THEN /\ Made # Timers
         /\ timer' = Cardinality(Made) + 1
         /\ tstate' = [tstate EXCEPT ![Cardinality(Made) + 1] = "pending",
                                     ![t] = "ring_release"]
    ELSE /\ timer' = timer
         /\ tstate' = [tstate EXCEPT ![t] = "ring_release"]

\* _ring(): _set_timer(reset=True): the Timer is made and started
RingSetTimer(t) ==
    /\ tstate[t] = "ring_set"
    /\ ring_set_timer(t)
    /\ UNCHANGED <<current, at_previous_ring, timer_lock, mpc, ncalls,
                   finished, printed, watch, rings_after_stop, others>>

\* _ring(): _set_timer(reset=True): the lock is released, _ring() returns
RingRelease(t) ==
    /\ tstate[t] = "ring_release"
    /\ timer_lock' = "free"
    /\ tstate' = [tstate EXCEPT ![t] = "done"]
    /\ UNCHANGED <<current, at_previous_ring, timer, mpc, ncalls, finished,
                   printed, watch, rings_after_stop, others>>

MainNext ==
    \/ PPCall
    \/ IncBegin
    \/ IncAcquire
    \/ IncSetTimer
    \/ IncRelease
    \/ IncAdd
    \/ FinishBegin
    \/ FinishAcquire
    \/ FinishCancel
    \/ FinishRelease
    \/ FinishPrint
    \/ FinishReset
    \/ Stop

TimerNext ==
    \E t \in Timers :
        \/ Fire(t)
        \/ RingCheck(t)
        \/ RingPrint(t)
        \/ RingCompare(t)
        \/ RingAssign(t)
        \/ RingAcquire(t)
        \/ RingSetTimer(t)
        \/ RingRelease(t)

NextPrinter == MainNext \/ TimerNext

SpecPrinter == InitPrinter /\ [][NextPrinter]_vars

\* a started Timer fires when its interval is over, and the thread that
\* runs _ring() is scheduled until it returns
SpecPrinterFair == SpecPrinter /\ WF_vars(TimerNext)

\* ----------------------------------------------------------------- claims

\* C1: with dry_run enabled the persistent store is, at every point of the
\* run and after process_file has returned or raised, the store the run
\* started from: every creation, update and audit record is rolled back.
C1_DryRunLeavesStore == self.dry_run => store = store0

\* a dry run that returned after lines of it had written to the database
C1_Witness == self.dry_run /\ pc = "returned" /\ wrote /\ self.count >= 2

C3_RaiseLeavesStore == pc = "raised" => store = store0

\* a run that raised after earlier lines had written to the database
C3_Witness == pc = "raised" /\ wrote /\ ~self.dry_run

\* C4: with warn_on_error on, a line that raises a recoverable error leaves
\* the database as it was before the line and the run goes on with the next
\* line; what the other lines wrote is what a run that is no dry run commits.
C4_SkippedLineDiscarded ==
    [][/\ outcome' = "skipped" =>
            (self.warn_on_error /\ db' = db /\ store' = store /\ pc' = "running")
       /\ (outcome' = "eof" /\ ~self.dry_run) => store' = db]_vars

\* a skipped line that had inserted its entity before it failed, in a run
\* whose earlier lines wrote to the database
C4_Witness ==
    /\ outcome = "skipped"
    /\ self.warn_on_error
    /\ wrote
    /\ acct.case = "new"
    /\ acct.obj \notin DOMAIN db.ent

\* C5: with warn_on_error on, a line that fails with a recoverable error
\* after its row handler changed new, added or changed leaves the three
\* statistics as they were before the line.
C5_CountersRestored ==
    [][(outcome' = "skipped" /\ touched') =>
           /\ self'.new = self.new
           /\ self'.added = self.added
           /\ self'.changed = self.changed]_vars

\* the skipped lines that start a maximal run of immediately consecutive
\* lines failing with the same message
RunStarts(sk) ==
    {i \in 1..Len(sk) :
        \/ i = 1
        \/ sk[i].msg # sk[i - 1].msg
        \/ sk[i].line # sk[i - 1].line + 1}

\* line l lies in the span some entry of the warnings list reports
Covered(l, ws) ==
    \E j \in 1..Len(ws) :
        /\ ws[j][1] = "skipping row: at line"
        /\ \/ ws[j][2] = l
           \/ /\ j < Len(ws)
              /\ ws[j + 1][1] = "(and for next lines)"
              /\ ws[j][2] < l
              /\ l <= ws[j][2] + ws[j + 1][2]

\* C6: in the report, every maximal run of consecutive lines failing with
\* the same message has exactly one entry of the warnings list, which
\* starts at the first line of the run.
C6_OneWarningPerRun ==
    pc = "returned" =>
        /\ Len(self.warnings) = Cardinality(RunStarts(skipped))
        /\ \A i \in RunStarts(skipped) :
              \E j \in 1..Len(self.warnings) :
                 /\ self.warnings[j][1] = "skipping row: at line"
                 /\ self.warnings[j][2] = skipped[i].line

\* C7: when process_file returns, every line that was skipped is covered by
\* an entry of the returned warnings list.
C7_SkippedLinesReported ==
    pc = "returned" =>
        \A i \in 1..Len(skipped) : Covered(skipped[i].line, self.warnings)

\* C8: a skipped line is put under the warning of the line before it only
\* if both errors have the same kind and the same message and the lines are
\* immediately consecutive.
C8_CoalesceSameKindAndMessage ==
    [][(/\ outcome' = "skipped"
        /\ Len(skipped) > 0
        /\ self'.last_warning[3] < self'.linenum) =>
           LET prev == skipped[Len(skipped)]
               cur == skipped'[Len(skipped')]
           IN /\ prev.kind = cur.kind
              /\ prev.msg = cur.msg
              /\ prev.line + 1 = cur.line]_vars

\* C9: a line that meets an existing entity whose differing fields are all
\* unset, and is processed, counts one addition for the type, appends
\* nothing to changed, and writes the proposed values with an audit record,
\* whatever can_overwrite is.
C9_ConsistentAdditionApplied ==
    [][(acct'.case = "consistent" /\ outcome' = "ok") =>
           /\ self'.added["participant"] = self.added["participant"] + 1
           /\ self'.changed = self.changed
           /\ self'.new = self.new
           /\ \A t \in acct'.diff : db'.ent[acct'.obj][t[1]] = t[3]
           /\ change_record(self', acct'.obj) \in db'.audit]_vars

\* an addition of two fields at once, applied with can_overwrite off
C9_Witness ==
    /\ acct.case = "consistent"
    /\ outcome = "ok"
    /\ ~self.can_overwrite
    /\ Cardinality(acct.diff) = 2
    /\ \A t \in acct.diff : db.ent[acct.obj][t[1]] = t[3]

\* C10: a line that meets an existing entity with a differing field that is
\* set, and is processed, appends one record to changed for the type, the
\* entity with the (field, stored, proposed) triple of every differing
\* field, and changes the stored entity exactly when can_overwrite is true;
\* with can_overwrite false no line changes a set field of an entity of the
\* database, and the store keeps every set field it started with.
C10_ConflictNeedsOverwrite ==
    [][/\ (acct'.case = "conflict" /\ outcome' = "ok") =>
            /\ self'.changed["participant"] =
                  Append(self.changed["participant"], <<acct'.obj, acct'.diff>>)
            /\ (db'.ent[acct'.obj] # db.ent[acct'.obj]) <=> self.can_overwrite
            /\ self.can_overwrite =>
                  \A t \in acct'.diff : db'.ent[acct'.obj][t[1]] = t[3]
       /\ (pc' = "running" /\ ~self.can_overwrite) =>
            \A n \in DOMAIN db.ent : \A f \in Fields :
               db.ent[n][f] # Empty =>
                  n \in DOMAIN db'.ent /\ db'.ent[n][f] = db.ent[n][f]
       /\ ~self.can_overwrite =>
            \A n \in DOMAIN store0.ent : \A f \in Fields :
               store0.ent[n][f] # Empty =>
                  n \in DOMAIN store'.ent /\ store'.ent[n][f] = store0.ent[n][f]]_vars

\* a conflict in one field met together with an addition in another, with
\* can_overwrite off: recorded, and the entity left as it was
C10_Witness ==
    /\ acct.case = "conflict"
    /\ outcome = "ok"
    /\ ~self.can_overwrite
    /\ Cardinality(acct.diff) = 2
    /\ \E t \in acct.diff : t[2] = Empty
    /\ \A t \in acct.diff : db.ent[acct.obj][t[1]] = t[2]

\* C13: with warn_on_error off, the first line whose row raises a
\* ValidationError, an IntegrityError or a UserDataError ends the run:
\* process_file raises at that line, which is the last line read and is not
\* counted, and a run that raised never returns a report.
C13_FirstErrorEndsRun ==
    /\ (~self.warn_on_error /\ rowexc.kind \in Recoverable) =>
          /\ pc = "raised"
          /\ outcome = "raised"
          /\ rowexc.line = self.linenum
          /\ self.count = self.linenum - 2
          /\ skipped = <<>>
    /\ pc = "raised" => (outcome = "raised" /\ exc # NoExc)

\* the run ended at the third line of the file, after two lines were loaded
C13_Witness ==
    /\ ~self.warn_on_error
    /\ rowexc.kind \in Recoverable
    /\ pc = "raised"
    /\ self.count = 2
    /\ wrote

\* C14: with warn_on_error off, the error that process_file raises for a
\* line whose row raised a recoverable error has the class of the row's
\* error and names the line.
C14_SameKindReachesCaller ==
    (pc = "raised" /\ ~self.warn_on_error /\ rowexc.kind \in Recoverable) =>
        /\ exc.kind = rowexc.kind
        /\ exc.line = self.linenum

C12_AmbiguousLookupIsUserError ==
    acct.case = "ambiguous" =>
        /\ rowexc.kind = "UserDataError"
        /\ self.warn_on_error => (outcome = "skipped" /\ pc = "running")
        /\ ~self.warn_on_error => (pc = "raised" /\ exc.kind = "UserDataError")

C20_ValidatedBeforeWritten == unchecked = {}

\* C11: the second load of a well-formed file without duplicate keys, with
\* can_overwrite false on the store the first load left, reports no new
\* entity and no conflicting change and leaves the store as it was.
C11_SecondLoadReportsNothing ==
    (run = 2 /\ pc = "returned") =>
        /\ self.new["participant"] = 0
        /\ self.changed["participant"] = <<>>
        /\ store = first.store

\* C11 as amended: the second load reports no new entity and no addition
\* and leaves the store as it was; it reports no conflicting change if the
\* first load ran with can_overwrite true, and otherwise the conflicting
\* changes the first load reported and did not apply, each of them again.
C11_SecondLoadRepeatsConflicts ==
    (run = 2 /\ pc = "returned") =>
        /\ self.new["participant"] = 0
        /\ self.added["participant"] = 0
        /\ store = first.store
        /\ self.count = first.report.count
        /\ self.changed["participant"] =
              IF first.report.overwrite THEN <<>>
              ELSE first.report.changed["participant"]

\* both loads returned; the first, with can_overwrite off, created an
\* entity and left a conflict unapplied, which the second met again
C11_Witness ==
    /\ run = 2
    /\ pc = "returned"
    /\ ~first.report.overwrite
    /\ first.report.new["participant"] = 1
    /\ first.report.changed["participant"] # <<>>
    /\ self.changed["participant"] # <<>>
    /\ self.count = 2

\* the fields of a line as the file has them: the text between the
\* separators, each stripped
TrueFields(text) ==
    [i \in 1..Len(split(text, Sep)) |-> strip(split(text, Sep)[i])]

\* column i of the line read last is in the normalized row
Exposed(i) ==
    /\ i <= Len(split_line(line))
    /\ cols[i] \in DOMAIN row
    /\ row[cols[i]] = split_line(line)[i]
    /\ \A j \in 1..Len(cols) : cols[j] = cols[i] => j = i

\* C16: a header that matches no header of COLS by casefolded comparison
\* is listed in ignored_columns, and no line has the value of its column
\* in the normalized row.
C16_IgnoredColumnNeverExposed ==
    built => \A i \in 1..Len(colnames) :
        (\A d \in DOMAIN COLS : casefold(colnames[i]) # casefold(COLS[d][1])) =>
            /\ \E j \in 1..Len(ignored_columns) : ignored_columns[j] = colnames[i]
            /\ ~Exposed(i)

\* C17: the i-th header is mapped to the key of a descriptor exactly when
\* its casefolded text is the casefolded header of the descriptor, and the
\* i-th field of every line is what the normalized row has under the key
\* of the i-th header, where the key is valid, not shared with another
\* column, and the field non-empty.
C17_PositionalCasefoldMapping ==
    built => \A i \in 1..Len(colnames) :
        /\ \A d \in DOMAIN COLS :
              (~is_ignored(colnames[i]) /\ cols[i] = COLS[d][2]) <=>
                 casefold(colnames[i]) = casefold(COLS[d][1])
        /\ (/\ cols[i] \in valid_cols
             /\ \A j \in 1..Len(cols) : cols[j] = cols[i] => j = i) =>
              IF i <= Len(TrueFields(line)) /\ non_empty(TrueFields(line)[i])
              THEN cols[i] \in DOMAIN row /\ row[cols[i]] = TrueFields(line)[i]
              ELSE cols[i] \notin DOMAIN row

\* C18: every key of the normalized row is a semantic key of COLS, and its
\* value is the stripped field of a column with that key, is no string of
\* missing_data, begins with no pattern of missing_data, and is not the
\* placeholder that decode_blank turns into the empty string.
C18_RowKeysValidAndNonEmpty ==
    built => \A k \in DOMAIN row :
        /\ \E d \in DOMAIN COLS : k = COLS[d][2]
        /\ \E i \in 1..Len(cols) :
              /\ cols[i] = k
              /\ i <= Len(split_line(line))
              /\ row[k] = split_line(line)[i]
        /\ strip(row[k]) = row[k]
        /\ \A m \in DOMAIN missing_data :
              IF missing_data[m].pattern
              THEN SubSeq(row[k], 1, Len(missing_data[m].text))
                      # missing_data[m].text
              ELSE row[k] # missing_data[m].text
        /\ row[k] # BlankToken

\* a line of two fields for two valid columns, one kept and the other
\* dropped as the placeholder of a blank
C18_Witness ==
    /\ built
    /\ Len(cols) = 2
    /\ \A i \in 1..2 : cols[i] \in valid_cols
    /\ Len(split_line(line)) = 2
    /\ split_line(line)[2] = BlankToken
    /\ DOMAIN row = {cols[1]}
    /\ cols[1] # cols[2]

\* C21: the notes attached to an entity only grow: a line that is processed
\* or skipped removes no association the database had before it and adds
\* at most the note of its row to its entity, and the committed store
\* never loses an association.
C21_NotesOnlyGrow ==
    [][/\ pc' = "running" =>
            /\ db.notes \subseteq db'.notes
            /\ \A a \in db'.notes \ db.notes : a[1] = acct'.obj
            /\ Cardinality(db'.notes \ db.notes) <= 1
       /\ store.notes \subseteq store'.notes
       /\ store0.notes \subseteq db'.notes]_vars

\* an entity that had a note in the store the run started from has got a
\* second one from a line of the file
C21_Witness ==
    /\ outcome = "ok"
    /\ <<"p1", "n1">> \in store0.notes
    /\ {<<"p1", "n1">>, <<"p1", "n2">>} \subseteq db.notes
    /\ acct.obj = "p1"
    /\ acct.case = "same"

\* C26: a processed line that meets an existing entity with values equal
\* to all it proposes, or proposes none, changes none of new, added and
\* changed and writes nothing to the database.
C26_NothingToAccount ==
    [][(acct'.case \in {"same", "nofrom"} /\ outcome' = "ok") =>
           /\ self'.new = self.new
           /\ self'.added = self.added
           /\ self'.changed = self.changed
           /\ db' = db]_vars

\* the third line of a run whose earlier lines had written met its entity
\* in a step that passes no from_row to account()
C26_Witness ==
    /\ acct.case = "nofrom"
    /\ outcome = "ok"
    /\ wrote
    /\ self.count = 3
    /\ self.rec = [participant |-> "p1"]

\* C28: when process_file returns, count is the number of data lines read,
\* the processed and the skipped ones, and linenum is count + 1.
C28_CountIsLinesRead ==
    pc = "returned" =>
        /\ self.count = nread
        /\ self.linenum = self.count + 1
        /\ Report(World).count = nread

\* a returned run that read three lines and skipped two of them
C28_Witness ==
    /\ pc = "returned"
    /\ nread = 3
    /\ Len(skipped) = 2
    /\ self.warn_on_error

\* what the line at hand gives for the sample: the participant and the
\* number of its sample id, its week, and its ph and bristol unless NA
FromLine(r) ==
    update(parse_id(r.sample_id),
           [k \in {j \in {"week", "ph", "bristol"} :
                      j \in DOMAIN r /\ r[j] # "NA"} |-> r[k]])

\* C27: the from_row that process_sample_id passes to get_or_create and
\* account for the sample of a line holds only values of that line.
C27_ProposedFromLineOnly ==
    (spc = "running" /\ srow # <<>>) => proposed = FromLine(srow)

\* C25: a fasta record whose sequence is stored without a number and whose
\* id gives a proper number sets the stored ASV's number, counts it in
\* updated, makes no second ASV and does not raise.
C25_NumberOfUnnumberedUpdated ==
    [][(/\ fpc = "running"
        /\ frec' # frec
        /\ [sequence |-> frec'.seq, number |-> NoNumber] \in asvs
        /\ SubSeq(frec'.id, 1, Len(PREFIX)) = PREFIX
        /\ natural_lookup(frec'.id).ok
        /\ natural_lookup(frec'.id).number # 0) =>
           /\ fpc' = "running"
           /\ [sequence |-> frec'.seq,
               number |-> natural_lookup(frec'.id).number] \in asvs'
           /\ Cardinality(asvs') = Cardinality(asvs)
           /\ fstats'.updated = fstats.updated + 1]_vars

\* the positions of the row that have a semantic key
KeptPositions ==
    {i \in 1..Len(crow) : i <= Len(column_specs) /\ column_specs[i].key # PyNone}

\* C22: cut(row) yields, in declaration order, exactly the values of row
\* at the positions whose key is not None, for the row of this call alone
\* and whatever was cut before; for a full-length row it yields as many
\* values as there are keys and conversion functions.
C22_CutKeepsKeyedPositions ==
    ncut > 0 =>
        /\ Len(cout) = Cardinality(KeptPositions)
        /\ \A i \in KeptPositions :
              cout[Cardinality({j \in KeptPositions : j <= i})] = crow[i]
        /\ Len(crow) = Len(column_specs) =>
              /\ Len(cout) = Len(keys)
              /\ Len(cout) = Len(convfuncs)

\* a second call, on a full-length row with an ignored column in front of
\* a kept one
C22_Witness ==
    /\ ncut > 1
    /\ Len(crow) = Len(column_specs)
    /\ Len(crow) = 2
    /\ column_specs[1].key = PyNone
    /\ column_specs[2].key # PyNone
    /\ crow[1] # crow[2]
    /\ cout = <<crow[2]>>

\* C29: at no time is more than one Timer started, not fired and not
\* cancelled.
C29_AtMostOnePendingTimer == Cardinality(Pending) <= 1

\* a second Timer is pending after the first one fired and re-armed
C29_Witness ==
    /\ Cardinality(Pending) = 1
    /\ Cardinality(Made) > 1
    /\ \E t \in Timers : tstate[t] = "done"

\* C23: once finish() has printed the totals and returned, no Timer is
\* pending, none gets started, and the timer threads print no further
\* progress line.
C23_FinishDrainsTimer ==
    [][finished' =>
          /\ Pending' = {}
          /\ finished => /\ Made' = Made
                          /\ printed' = printed]_vars

\* C24: an inc() that is called after finish() when the timer has
\* stopped has a Timer started by the time it returns.
C24_IncResumesTimer ==
    (mpc = "idle" /\ watch.stopped) => Cardinality(Made) > watch.made

\* C30: when the main thread has stopped calling without finish(), at
\* most two more Timers fire, and in the end no Timer is pending or
\* ringing, for good.
C30_TimerStopsAfterMainStops ==
    /\ [](rings_after_stop <= 2)
    /\ (mpc = "stopped") ~> [](Pending \cup Ringing = {})

\* the main thread stopped with a Timer pending and the count moved since
\* the last ring: that Timer fired and re-armed, the next one fired and
\* did not
C30_Witness ==
    /\ mpc = "stopped"
    /\ ~finished
    /\ rings_after_stop = 2
    /\ Pending \cup Ringing = {}

====
